---- MODULE Spec2Model ----
(***************************************************************************)
(* State-machine model of assets/custom.js, the dashboard enhancement      *)
(* script: preference store, theme and sidebar controllers, the            *)
(* enhancement engine, the mutation observer with its debounce timer and   *)
(* the bootstrap (load-time activation, streamlitReady poll, timeout).     *)
(*                                                                         *)
(* Time advances in ticks of TickMs milliseconds.  A timer is the number   *)
(* of ticks left before it is due, NoTimer when it is not armed.  Time     *)
(* does not advance past a due timer.                                      *)
(***************************************************************************)
EXTENDS Integers, Sequences, FiniteSets, TLC

\* ----- bounds of the model -----
NumBoxes == 2      \* elements carrying the class summary-box
NumWrappers == 1   \* other elements the host inserts (plain containers)
MaxInit == 2       \* initUI runs per page load (observers / debounce closures)

\* ----- CONFIG and the timing constants of the script -----
themes == <<"Light", "Dark", "Cyberpunk">>
defaultTheme == "Light"
DebounceWait == 250
PollInterval == 500
PollTimeout == 10000
MobileWidth == 768
TickMs == DebounceWait   \* one tick of model time is one debounce window

WaitTicks == DebounceWait \div TickMs
PollTicks == PollInterval \div TickMs
TimeoutTicks == PollTimeout \div TickMs

ThemeSet == {themes[i] : i \in 1..Len(themes)}
Null == "<null>"     \* getItem of a missing key, a missing attribute
NoTimer == -1        \* a timeout handle with nothing scheduled
\* what the theme key may hold when the page loads: nothing, a theme, or a
\* value left by another writer (an unknown name, the empty string)
StoredThemes == ThemeSet \cup {Null, "", "Bogus"}
StoredFlags == {Null, "true", "false"}
\* the browser's storage: localStorage is usable ("ok"), refuses writes
\* ("full": setItem raises QuotaExceededError) or cannot be touched ("denied":
\* reading window.localStorage raises SecurityError); sessionStorage likewise
\* (sessionStorage is only ever touched when localStorage is denied)
Envs == {e \in [local : {"ok", "full", "denied"}, session : {"ok", "denied"}] :
           e.local # "denied" => e.session = "ok"}
StorageWorks == [local |-> "ok", session |-> "ok"]
ThemeArgs == ThemeSet \cup {"Bogus"}
Widths == {MobileWidth, MobileWidth + 1}

BoxNames == <<"b1", "b2", "b3", "b4">>
WrapperNames == <<"w1", "w2", "w3">>
Boxes == {BoxNames[i] : i \in 1..NumBoxes}
NodeSeq == SubSeq(BoxNames, 1, NumBoxes) \o SubSeq(WrapperNames, 1, NumWrappers)
Nodes == {NodeSeq[i] : i \in 1..Len(NodeSeq)}
IsBox(n) == n \in Boxes            \* n.matches('.summary-box')
Closures == 1..MaxInit
Places == {"none", "body", "app"}  \* parent of a node: detached, or a container
EngineNodes == {"icon", "progress"} \* the elements decorateSummaryBox creates

VARIABLES
  storage,          \* the Preference Store: key -> string or Null
  env,              \* the browser's storage backends: which of them work
  fault,            \* the step just taken let an exception reach its caller
  app,              \* the .stApp element: presence and attributes
  sidebar,          \* the .stSidebar element: presence and classes
  innerWidth,       \* window.innerWidth
  parent,           \* DOM tree of the host's nodes: node -> Places or a node
  icons,            \* node -> number of .summary-icon children
  progress,         \* node -> number of .summary-progress children
  script,           \* "notrun" before the script has run in this page, then "run"
  dclListener,      \* initUI is registered for DOMContentLoaded and has not run
  mutationObserver, \* the module variable: id of the latest observer, 0 = undefined
  connected,        \* ids of the observers that are observing
  target,           \* what the latest observer observes: "app" or "body"
  enhanceTimeout,   \* closure id -> timer of its debouncedEnhance
  resizeTimeout,    \* closure id -> timer of its handleResize
  listeners,        \* number of click/keydown listener pairs on the document
  streamlitReady,   \* timer of the bootstrap poll, NoTimer once cleared
  pollTimeout,      \* timer of the 10 s timeout that clears the poll
  \* ----- history variables, read by the properties only -----
  lastAct,          \* the step just taken: [op, arg, id]
  emitted,          \* notifications dispatched by the step just taken
  passes,           \* enhancement passes run by the step just taken
  skipped,          \* candidates that pass found decorated and left alone
  themeTrail,       \* root presence and getTheme() before each of the latest
                    \* consecutive toggleTheme calls
  sidebarTrail,     \* root and sidebar state before each of the latest
                    \* consecutive toggleSidebar calls
  reloaded,         \* the setTheme call made right before the latest reload
  burst,            \* closure id -> its current burst of relevant batches:
                    \* [since: ticks since the latest batch, batches: how many
                    \* (2 = several), passes: passes run for it]; kept until the
                    \* step after its timer is gone
  inserted          \* nodes inserted into the watched subtree and still awaiting a pass

vars == <<storage, env, fault, app, sidebar, innerWidth, parent, icons, progress, script,
          dclListener, mutationObserver, connected, target, enhanceTimeout,
          resizeTimeout, listeners, streamlitReady, pollTimeout, lastAct,
          emitted, passes, skipped, themeTrail, sidebarTrail, reloaded,
          burst, inserted>>

\* ===== UTILITY FUNCTIONS =====

\* executedFunction without the clearTimeout before setTimeout taking effect:
\* a pending timer is kept and the new trigger does not move the deadline
executedFunctionKeepsDeadline(timeout) ==
  IF timeout # NoTimer THEN timeout ELSE WaitTicks

\* debounce(func, wait) returns executedFunction; a call of it clears the
\* pending timeout and schedules func after wait.  The result is the closure's
\* new timer.
executedFunction(timeout) == WaitTicks

\* ===== PREFERENCE STORE =====
\* safeLocalStorage(): window.localStorage, or the sessionStorage wrappers
\* when reading window.localStorage raised
safeLocalStorage(e) == IF e.local = "denied" THEN "session" ELSE "local"

\* storage.getItem raises: the wrapper does when it touches a denied
\* sessionStorage
getItemThrows(e) == safeLocalStorage(e) = "session" /\ e.session = "denied"

\* storage.setItem raises
setItemThrows(e) ==
  IF safeLocalStorage(e) = "local" THEN e.local = "full" ELSE e.session = "denied"

\* an exception leaves the function at this point
Throw(w) == [w EXCEPT !.fault = TRUE]

\* ===== THEME MANAGEMENT =====
\* The controllers work on a record w = [storage, env, app, sidebar, emitted,
\* fault]; fault is set when a statement raised and the rest was not run.

Event(type, detail) == [type |-> type, detail |-> detail]

\* setTheme without the CONFIG.themes.includes check
setThemeUnvalidated(w, theme) ==
  IF w.app.present
    THEN [w EXCEPT !.app.theme = theme,
                   !.storage.theme = theme,
                   !.emitted = Append(@, Event("themeChanged", theme))]
    ELSE w

\* setTheme without the storage.setItem call
setThemeNotPersisted(w, theme) ==
  LET t == IF theme \in ThemeSet THEN theme ELSE defaultTheme
  IN IF w.app.present
       THEN [w EXCEPT !.app.theme = t,
                      !.emitted = Append(@, Event("themeChanged", t))]
       ELSE w

setTheme(w, theme) ==
  LET t == IF theme \in ThemeSet THEN theme ELSE defaultTheme
      w1 == [w EXCEPT !.app.theme = t]
  IN IF w.app.present
       THEN IF setItemThrows(w.env) THEN Throw(w1)
            ELSE [w1 EXCEPT !.storage.theme = t,
                            !.emitted = Append(@, Event("themeChanged", t))]
       ELSE w

\* getTheme that never reads the store
getThemeIgnoresStore(w) == defaultTheme

\* storage.getItem(key) || defaultTheme, when getItem returns; a caller
\* looks at getItemThrows first
getTheme(w) ==
  IF w.storage.theme = Null \/ w.storage.theme = "" THEN defaultTheme
  ELSE w.storage.theme

\* Array.prototype.indexOf, 0-based, -1 when absent
indexOf(seq, x) ==
  IF \E i \in 1..Len(seq) : seq[i] = x
    THEN (CHOOSE i \in 1..Len(seq) : seq[i] = x /\ \A j \in 1..(i - 1) : seq[j] # x) - 1
    ELSE -1

\* toggleTheme without the wrap-around of % CONFIG.themes.length
toggleThemeNoWrap(w) ==
  LET currentIndex == indexOf(themes, getTheme(w))
      nextIndex == IF currentIndex + 1 < Len(themes) THEN currentIndex + 1 ELSE currentIndex
  IN setTheme(w, themes[nextIndex + 1])

toggleTheme(w) ==
  LET currentIndex == indexOf(themes, getTheme(w))
      nextIndex == (currentIndex + 1) % Len(themes)
  IN IF getItemThrows(w.env) THEN Throw(w)
     ELSE setTheme(w, themes[nextIndex + 1])

resetTheme(w) == setTheme(w, defaultTheme)

\* ===== SIDEBAR MANAGEMENT =====
Bool(b) == IF b THEN "true" ELSE "false"

\* toggleSidebar whose isCollapsed branch never runs: it always collapses
toggleSidebarAlwaysCollapses(w) ==
  IF w.sidebar.present /\ w.app.present
    THEN [w EXCEPT !.sidebar.collapsed = TRUE,
                   !.app.sidebarCollapsed = "true",
                   !.storage.sidebarCollapsed = "true",
                   !.emitted = Append(@, Event("sidebarToggled", "true"))]
    ELSE w

\* toggleSidebar that does not look for the sidebar element before it writes
toggleSidebarUnguarded(w) ==
  IF w.app.present
    THEN LET isCollapsed == w.sidebar.collapsed
         IN [w EXCEPT !.sidebar.collapsed = ~isCollapsed,
                      !.app.sidebarCollapsed = Bool(~isCollapsed),
                      !.storage.sidebarCollapsed = Bool(~isCollapsed),
                      !.emitted = Append(@, Event("sidebarToggled", Bool(~isCollapsed)))]
    ELSE w

toggleSidebar(w) ==
  IF w.sidebar.present /\ w.app.present
    THEN LET isCollapsed == w.sidebar.collapsed
             w1 == [w EXCEPT !.sidebar.collapsed = ~isCollapsed,
                             !.app.sidebarCollapsed = Bool(~isCollapsed)]
         IN IF setItemThrows(w.env) THEN Throw(w1)
            ELSE [w1 EXCEPT !.storage.sidebarCollapsed = Bool(~isCollapsed),
                            !.emitted = Append(@, Event("sidebarToggled", Bool(~isCollapsed)))]
    ELSE w

\* applySavedSidebarState written as a call of toggleSidebar when the stored
\* state differs from the displayed one
applySavedSidebarStateByToggle(w) ==
  IF getItemThrows(w.env) THEN Throw(w)
  ELSE IF w.storage.sidebarCollapsed = "true" /\ ~w.sidebar.collapsed
    THEN toggleSidebar(w)
    ELSE w

applySavedSidebarState(w) ==
  LET isCollapsed == w.storage.sidebarCollapsed = "true"
  IN IF getItemThrows(w.env) THEN Throw(w)
     ELSE IF w.sidebar.present /\ w.app.present /\ isCollapsed
       THEN [w EXCEPT !.sidebar.collapsed = TRUE,
                      !.app.sidebarCollapsed = "true"]
       ELSE w

\* ===== DOM =====
\* The host's nodes form a forest: parent[n] is another node, "body", "app"
\* (the .stApp element, itself a child of body) or "none" (detached).
\* d = [parent, icons, progress].

RECURSIVE Ancestors(_, _)
Ancestors(par, n) ==
  IF par[n] \in Places THEN {} ELSE {par[n]} \cup Ancestors(par, par[n])

RECURSIVE Root(_, _)
Root(par, n) == IF par[n] \in Places THEN par[n] ELSE Root(par, par[n])

Subtree(par, c) == {n \in Nodes : n = c \/ c \in Ancestors(par, n)}
InDoc(par, n) == Root(par, n) \in {"body", "app"}
Children(par, p) == {n \in Nodes : par[n] = p}

\* the nodes of S in the order of NodeSeq
SortedSeq(S) == SelectSeq(NodeSeq, LAMBDA n : n \in S)

\* document order (preorder) of the nodes below the ones in todo; the order
\* among siblings is the host's and is taken by node id
RECURSIVE Walk(_, _)
Walk(par, todo) ==
  IF todo = <<>> THEN <<>>
  ELSE <<Head(todo)>> \o Walk(par, SortedSeq(Children(par, Head(todo))) \o Tail(todo))

\* document.querySelectorAll('.summary-box'): a NodeList in document order
querySelectorAll(par) ==
  LET all == Walk(par, SortedSeq(Children(par, "app")) \o SortedSeq(Children(par, "body")))
  IN SelectSeq(all, IsBox)

\* ===== UI ENHANCEMENTS =====
\* summaryBox.querySelector('.summary-icon'): any descendant with that class
hasIcon(d, c) == \E n \in Subtree(d.parent, c) : d.icons[n] > 0

\* decorateSummaryBox without its "only decorate once" early return
decorateSummaryBoxUnguarded(d, c) ==
  [d EXCEPT !.icons[c] = @ + 1, !.progress[c] = @ + 1]

\* The progress bar's width/opacity animation is cosmetic and not modelled.
decorateSummaryBox(d, c) ==
  IF hasIcon(d, c) THEN d
  ELSE [d EXCEPT !.icons[c] = @ + 1, !.progress[c] = @ + 1]

RECURSIVE forEach(_, _)
forEach(d, list) ==
  IF list = <<>> THEN d
  ELSE forEach(decorateSummaryBox(d, Head(list)), Tail(list))

enhanceNewElements(d) == forEach(d, querySelectorAll(d.parent))

\* ===== DOM MUTATION OBSERVER =====
\* node.matches('.summary-box') || node.querySelector('.summary-box') for one
\* added node: a host node, or an element the engine created
\* the relevance test letting any added element through
relevantAnyElement(par, node) == TRUE

relevant(par, node) ==
  IF node \in EngineNodes THEN FALSE
  ELSE IsBox(node) \/ \E m \in Subtree(par, node) \ {node} : IsBox(m)

\* the observer callback's verdict on a batch whose added nodes are `added`
shouldEnhance(par, added) == \E node \in added : relevant(par, node)

\* setupMutationObserver without the disconnect of the previous observer
setupMutationObserverNoDisconnect(o, appPresent) ==
  LET id == o.mutationObserver + 1
  IN [mutationObserver |-> id,
      connected |-> o.connected \cup {id},
      target |-> [o.target EXCEPT ![id] = IF appPresent THEN "app" ELSE "body"]]

\* o = [mutationObserver, connected, target]
setupMutationObserver(o, appPresent) ==
  LET id == o.mutationObserver + 1
  IN [mutationObserver |-> id,
      connected |-> (o.connected \ {o.mutationObserver}) \cup {id},
      target |-> [o.target EXCEPT ![id] = IF appPresent THEN "app" ELSE "body"]]

\* observes for an observer that goes on delivering after disconnect()
observesWhenDisconnected(id, root) ==
  \/ target[id] = "body" /\ root \in {"body", "app"}
  \/ target[id] = "app" /\ root = "app"

\* observer id sees an insertion whose parent chain ends in `root`
observes(id, root) ==
  /\ id \in connected
  /\ \/ target[id] = "body" /\ root \in {"body", "app"}
     \/ target[id] = "app" /\ root = "app"

\* ===== EVENT HANDLERS =====
attachEventHandlers(n) == n + 1

\* the click listener: e.target is the theme button, the sidebar button or
\* another element
clickHandler(w, tgt) ==
  LET w1 == IF tgt = "themeToggle" THEN toggleTheme(w) ELSE w
  IN IF tgt = "sidebarToggle" THEN toggleSidebar(w1) ELSE w1

\* the keydown listener: key is the combination pressed
keydownHandler(w, key) ==
  LET w1 == IF key = "Mod+Shift+T" THEN toggleTheme(w) ELSE w
  IN IF key = "Mod+Shift+S" THEN toggleSidebar(w1) ELSE w1

ClickTargets == {"themeToggle", "sidebarToggle", "other"}
Keys == {"Mod+Shift+T", "Mod+Shift+S", "T"}

\* an event dispatched to the document runs every registered listener
RECURSIVE dispatchClick(_, _, _)
dispatchClick(w, n, tgt) ==
  IF n = 0 THEN w ELSE dispatchClick(clickHandler(w, tgt), n - 1, tgt)

RECURSIVE dispatchKeydown(_, _, _)
dispatchKeydown(w, n, key) ==
  IF n = 0 THEN w ELSE dispatchKeydown(keydownHandler(w, key), n - 1, key)

\* the body of the debounced handleResize of initUI
handleResize(sb, width) ==
  IF sb.present THEN [sb EXCEPT !.mobile = (width <= MobileWidth)] ELSE sb

\* ===== STATE =====
W == [storage |-> storage, env |-> env, app |-> app, sidebar |-> sidebar,
      emitted |-> <<>>, fault |-> FALSE]
D == [parent |-> parent, icons |-> icons, progress |-> progress]
O == [mutationObserver |-> mutationObserver, connected |-> connected, target |-> target]

Act(op, arg, id) == [op |-> op, arg |-> arg, id |-> id]
NoReload == [theme |-> Null, root |-> FALSE]
NoBurst == [since |-> 0, batches |-> 0, passes |-> 0]
\* the bursts still under way: a burst is forgotten once its timer is gone
Settled == [k \in Closures |-> IF enhanceTimeout[k] = NoTimer THEN NoBurst ELSE burst[k]]
Min(a, b) == IF a < b THEN a ELSE b
Last(n, seq) == IF Len(seq) <= n THEN seq ELSE SubSeq(seq, Len(seq) - n + 1, Len(seq))
ThemeSnap(w) == [root |-> w.app.present, theme |-> getTheme(w)]
SidebarSnap(w) == [root |-> w.app.present,
                   present |-> w.sidebar.present,
                   collapsed |-> w.sidebar.collapsed,
                   attr |-> w.app.sidebarCollapsed,
                   stored |-> w.storage.sidebarCollapsed]
\* the candidates a pass from d0 to d1 visited without decorating them
Skipped(d0, d1) ==
  {c \in Boxes : InDoc(d0.parent, c) /\ d1.icons[c] = d0.icons[c]}

FreshApp(present) ==
  [present |-> present, theme |-> Null, sidebarCollapsed |-> Null, initialized |-> FALSE]
FreshSidebar(present) == [present |-> present, collapsed |-> FALSE, mobile |-> FALSE]

\* a page that has just been served: the host may or may not have rendered
\* the root and the sidebar yet; the script has not run
Init ==
  /\ storage \in [theme : StoredThemes, sidebarCollapsed : StoredFlags]
  /\ env \in Envs
  /\ fault = FALSE
  /\ \E a \in BOOLEAN : app = FreshApp(a)
  /\ \E b \in BOOLEAN : sidebar = FreshSidebar(b)
  /\ innerWidth \in Widths
  /\ parent = [n \in Nodes |-> "none"]
  /\ icons = [n \in Nodes |-> 0]
  /\ progress = [n \in Nodes |-> 0]
  /\ script = "notrun"
  /\ dclListener = FALSE
  /\ mutationObserver = 0
  /\ connected = {}
  /\ target = [k \in Closures |-> "none"]
  /\ enhanceTimeout = [k \in Closures |-> NoTimer]
  /\ resizeTimeout = [k \in Closures |-> NoTimer]
  /\ listeners = 0
  /\ streamlitReady = NoTimer
  /\ pollTimeout = NoTimer
  /\ lastAct = Act("load", "", 0)
  /\ emitted = <<>>
  /\ passes = 0
  /\ skipped = {}
  /\ themeTrail = <<>>
  /\ sidebarTrail = <<>>
  /\ reloaded = NoReload
  /\ burst = [k \in Closures |-> NoBurst]
  /\ inserted = {}

\* ----- frames -----
SetW(w) ==
  /\ storage' = w.storage
  /\ app' = w.app
  /\ sidebar' = w.sidebar
  /\ emitted' = w.emitted
  /\ fault' = w.fault
  /\ UNCHANGED env

KeepPrefs == UNCHANGED <<storage, env, app, sidebar>> /\ emitted' = <<>> /\ fault' = FALSE
KeepDom == UNCHANGED <<parent, icons, progress>>
KeepObserver == UNCHANGED <<mutationObserver, connected, target>>
KeepTimers == UNCHANGED <<enhanceTimeout, resizeTimeout>> /\ burst' = Settled
NoPass == passes' = 0 /\ skipped' = {}
KeepPoll == UNCHANGED <<script, dclListener, streamlitReady, pollTimeout>>
NoTrail == themeTrail' = <<>> /\ sidebarTrail' = <<>>

\* ===== INITIALIZATION =====
\* initUI() run on the prefs record w0: saved theme, saved sidebar state, one
\* enhancement pass, a new observer, one more pair of listeners, and the
\* debounced handleResize called once.  The records of the pass's own
\* insertions never reach a callback: the previous observer is disconnected
\* in the same task and the new one starts observing after the pass.
\* The body is one try block: a statement that raises ends the activation
\* there, and the catch logs the error and swallows it.
InitUI(w0) ==
  LET w1 == IF getItemThrows(w0.env) THEN Throw(w0) ELSE setTheme(w0, getTheme(w0))
      w2 == IF w1.fault THEN w1 ELSE applySavedSidebarState(w1)
      d1 == enhanceNewElements(D)
      o1 == setupMutationObserver(O, w2.app.present)
      id == o1.mutationObserver
  IN IF w2.fault
       THEN /\ SetW([w2 EXCEPT !.fault = FALSE])
            /\ KeepDom /\ KeepObserver /\ KeepTimers
            /\ NoPass
            /\ UNCHANGED <<listeners, inserted, innerWidth>>
       ELSE /\ SetW(w2)
            /\ parent' = d1.parent
            /\ icons' = d1.icons
            /\ progress' = d1.progress
            /\ mutationObserver' = o1.mutationObserver
            /\ connected' = o1.connected
            /\ target' = o1.target
            /\ listeners' = attachEventHandlers(listeners)
            /\ resizeTimeout' = [resizeTimeout EXCEPT ![id] = executedFunction(@)]
            /\ passes' = 1
            /\ skipped' = Skipped(D, d1)
            /\ burst' = Settled
            /\ UNCHANGED <<enhanceTimeout, inserted, innerWidth>>

\* ===== AUTO-INITIALIZATION =====
\* the script runs: initUI now or on DOMContentLoaded, then the poll and its
\* timeout are armed
ScriptLoad(loading) ==
  /\ script = "notrun"
  /\ script' = "run"
  /\ IF loading
       THEN /\ dclListener' = TRUE
            /\ KeepPrefs /\ KeepDom /\ KeepObserver /\ KeepTimers
            /\ NoPass
            /\ UNCHANGED <<listeners, inserted, innerWidth>>
       ELSE /\ dclListener' = FALSE
            /\ InitUI(W)
  /\ streamlitReady' = PollTicks
  /\ pollTimeout' = TimeoutTicks
  /\ lastAct' = Act("scriptLoad", IF loading THEN "loading" ELSE "complete", 0)
  /\ NoTrail
  /\ UNCHANGED reloaded

DOMContentLoaded ==
  /\ dclListener
  /\ dclListener' = FALSE
  /\ InitUI(W)
  /\ lastAct' = Act("DOMContentLoaded", "", 0)
  /\ NoTrail
  /\ UNCHANGED <<script, streamlitReady, pollTimeout, reloaded>>

\* the interval callback without its clearInterval: after the activation the
\* poll goes on
PollTickKeepsPolling ==
  /\ streamlitReady = 0
  /\ IF app.present /\ ~app.initialized
       THEN /\ InitUI([W EXCEPT !.app.initialized = TRUE])
            /\ streamlitReady' = PollTicks
            /\ UNCHANGED pollTimeout
       ELSE /\ streamlitReady' = PollTicks
            /\ KeepPrefs /\ KeepDom /\ KeepObserver /\ KeepTimers
            /\ NoPass
            /\ UNCHANGED <<pollTimeout, listeners, inserted, innerWidth>>
  /\ lastAct' = Act("pollTick", "", 0)
  /\ NoTrail
  /\ UNCHANGED <<script, dclListener, reloaded>>

\* one tick of the streamlitReady interval.  Once the interval is cleared the
\* 10 s timeout has nothing left to do (clearInterval of a cleared handle), so
\* its timer is dropped with it.
PollTick ==
  /\ streamlitReady = 0
  /\ IF app.present /\ ~app.initialized
       THEN /\ InitUI([W EXCEPT !.app.initialized = TRUE])
            /\ streamlitReady' = NoTimer
            /\ pollTimeout' = NoTimer
       ELSE /\ streamlitReady' = PollTicks
            /\ KeepPrefs /\ KeepDom /\ KeepObserver /\ KeepTimers
            /\ NoPass
            /\ UNCHANGED <<pollTimeout, listeners, inserted, innerWidth>>
  /\ lastAct' = Act("pollTick", "", 0)
  /\ NoTrail
  /\ UNCHANGED <<script, dclListener, reloaded>>

\* the 10 s timeout without its clearInterval
PollTimeoutFireKeepsPoll ==
  /\ pollTimeout = 0
  /\ pollTimeout' = NoTimer
  /\ UNCHANGED streamlitReady
  /\ KeepPrefs /\ KeepDom /\ KeepObserver /\ KeepTimers
  /\ NoPass
  /\ lastAct' = Act("pollTimeout", "", 0)
  /\ NoTrail
  /\ UNCHANGED <<script, dclListener, listeners, inserted, innerWidth, reloaded>>

PollTimeoutFire ==
  /\ pollTimeout = 0
  /\ streamlitReady' = NoTimer
  /\ pollTimeout' = NoTimer
  /\ KeepPrefs /\ KeepDom /\ KeepObserver /\ KeepTimers
  /\ NoPass
  /\ lastAct' = Act("pollTimeout", "", 0)
  /\ NoTrail
  /\ UNCHANGED <<script, dclListener, listeners, inserted, innerWidth, reloaded>>

\* ===== TIME =====
AllTimers ==
  {enhanceTimeout[k] : k \in Closures} \cup {resizeTimeout[k] : k \in Closures}
    \cup {streamlitReady, pollTimeout}

Dec(t) == IF t = NoTimer THEN NoTimer ELSE t - 1

Tick ==
  /\ 0 \notin AllTimers
  /\ \E t \in AllTimers : t > 0
  /\ enhanceTimeout' = [k \in Closures |-> Dec(enhanceTimeout[k])]
  /\ resizeTimeout' = [k \in Closures |-> Dec(resizeTimeout[k])]
  /\ streamlitReady' = Dec(streamlitReady)
  /\ pollTimeout' = Dec(pollTimeout)
  /\ burst' = [k \in Closures |->
                 IF enhanceTimeout[k] = NoTimer THEN NoBurst
                 ELSE [burst[k] EXCEPT !.since = Min(@ + 1, WaitTicks + 1)]]
  /\ KeepPrefs /\ KeepDom /\ KeepObserver
  /\ NoPass
  /\ lastAct' = Act("tick", "", 0)
  /\ NoTrail
  /\ UNCHANGED <<script, dclListener, listeners, inserted, innerWidth, reloaded>>

\* ===== OBSERVER CALLBACK AND TIMERS =====
\* the closures whose observer receives a batch of insertions made below
\* `roots` with added nodes `added`, and whose callback calls debouncedEnhance
called(par, roots, added) ==
  {k \in Closures : (\E r \in roots : observes(k, r)) /\ shouldEnhance(par, added)}

\* `later` of a debouncedEnhance closure: the pass runs; the icon and progress
\* elements it appends are themselves insertions the observers are told of
EnhanceFire(id) ==
  /\ enhanceTimeout[id] = 0
  /\ LET d1 == enhanceNewElements(D)
         decorated == {n \in Nodes : d1.icons[n] # icons[n]}
         again == called(parent, {Root(parent, n) : n \in decorated}, EngineNodes)
     IN /\ parent' = d1.parent
        /\ icons' = d1.icons
        /\ progress' = d1.progress
        /\ enhanceTimeout' = [k \in Closures |->
              IF k \in again
                THEN executedFunction(IF k = id THEN NoTimer ELSE enhanceTimeout[k])
                ELSE IF k = id THEN NoTimer ELSE enhanceTimeout[k]]
        /\ burst' = [k \in Closures |->
              LET b == IF k = id THEN [burst[k] EXCEPT !.passes = Min(@ + 1, 2)]
                       ELSE Settled[k]
              IN IF k \in again
                   THEN [b EXCEPT !.since = 0, !.batches = Min(@ + 1, 2)]
                   ELSE b]
        /\ skipped' = Skipped(D, d1)
  /\ passes' = 1
  /\ KeepPrefs /\ KeepObserver /\ KeepPoll
  /\ lastAct' = Act("enhanceFire", "", id)
  /\ NoTrail
  /\ UNCHANGED <<resizeTimeout, listeners, inserted, innerWidth, reloaded>>

\* `later` of a handleResize closure
ResizeFire(id) ==
  /\ resizeTimeout[id] = 0
  /\ resizeTimeout' = [resizeTimeout EXCEPT ![id] = NoTimer]
  /\ sidebar' = handleResize(sidebar, innerWidth)
  /\ UNCHANGED <<storage, env, app>>
  /\ emitted' = <<>>
  /\ fault' = FALSE
  /\ NoPass
  /\ KeepDom /\ KeepObserver /\ KeepPoll
  /\ lastAct' = Act("resizeFire", "", id)
  /\ NoTrail
  /\ burst' = Settled
  /\ UNCHANGED <<enhanceTimeout, listeners, inserted, innerWidth, reloaded>>

\* the window is resized: every initUI so far has registered its own
\* debounced handleResize
WindowResize(width) ==
  /\ script = "run"
  /\ width # innerWidth
  /\ innerWidth' = width
  /\ resizeTimeout' = [k \in Closures |->
        IF k <= mutationObserver THEN executedFunction(resizeTimeout[k])
        ELSE resizeTimeout[k]]
  /\ KeepPrefs /\ KeepDom /\ KeepObserver /\ KeepPoll
  /\ NoPass
  /\ lastAct' = Act("resize", "", 0)
  /\ NoTrail
  /\ burst' = Settled
  /\ UNCHANGED <<enhanceTimeout, listeners, inserted, reloaded>>

\* ===== THE HOST PAGE =====
AppAppears ==
  /\ ~app.present
  /\ app' = FreshApp(TRUE)
  /\ UNCHANGED <<storage, env, sidebar>>
  /\ emitted' = <<>>
  /\ fault' = FALSE
  /\ NoPass
  /\ KeepDom /\ KeepObserver /\ KeepTimers /\ KeepPoll
  /\ lastAct' = Act("appAppears", "", 0)
  /\ NoTrail
  /\ UNCHANGED <<listeners, inserted, innerWidth, reloaded>>

SidebarAppears ==
  /\ ~sidebar.present
  /\ sidebar' = FreshSidebar(TRUE)
  /\ UNCHANGED <<storage, env, app>>
  /\ emitted' = <<>>
  /\ fault' = FALSE
  /\ NoPass
  /\ KeepDom /\ KeepObserver /\ KeepTimers /\ KeepPoll
  /\ lastAct' = Act("sidebarAppears", "", 0)
  /\ NoTrail
  /\ UNCHANGED <<listeners, inserted, innerWidth, reloaded>>

\* the host appends the detached node n (with whatever is below it) to p
HostAttach(n, p) ==
  /\ parent[n] = "none"
  /\ \/ p = "body"
     \/ p = "app" /\ app.present
     \/ p \in Nodes \ Subtree(parent, n)
  /\ LET par == [parent EXCEPT ![n] = p]
         root == Root(par, n)
         told == called(par, {root}, {n})
         watched == script = "run" /\ \E k \in Closures : observes(k, root)
     IN /\ parent' = par
        /\ enhanceTimeout' = [k \in Closures |->
              IF script = "run" /\ k \in told
                THEN executedFunction(enhanceTimeout[k]) ELSE enhanceTimeout[k]]
        /\ burst' = [k \in Closures |->
              IF script = "run" /\ k \in told
                THEN [Settled[k] EXCEPT !.since = 0, !.batches = Min(@ + 1, 2)]
                ELSE Settled[k]]
        /\ inserted' = IF watched
                         THEN inserted \cup {m \in Subtree(par, n) : IsBox(m)}
                         ELSE inserted
  /\ UNCHANGED <<icons, progress, resizeTimeout>>
  /\ KeepPrefs /\ KeepObserver /\ KeepPoll
  /\ NoPass
  /\ lastAct' = Act("attach", n, 0)
  /\ NoTrail
  /\ UNCHANGED <<listeners, innerWidth, reloaded>>

\* the host removes n from its parent; the record has no added nodes
HostDetach(n) ==
  /\ parent[n] # "none"
  /\ parent' = [parent EXCEPT ![n] = "none"]
  /\ inserted' = inserted \ Subtree(parent, n)
  /\ UNCHANGED <<icons, progress>>
  /\ KeepPrefs /\ KeepObserver /\ KeepTimers /\ KeepPoll
  /\ NoPass
  /\ lastAct' = Act("detach", n, 0)
  /\ NoTrail
  /\ UNCHANGED <<listeners, innerWidth, reloaded>>

\* ===== USER ACTIONS AND THE GLOBAL API =====
\* a step that only touches the preferences, the root and the sidebar
PrefsStep(w, act) ==
  /\ script = "run"
  /\ SetW(w)
  /\ NoPass
  /\ KeepDom /\ KeepObserver /\ KeepTimers /\ KeepPoll
  /\ lastAct' = act
  /\ UNCHANGED <<listeners, inserted, innerWidth>>
  /\ reloaded' = NoReload

Click(tgt) ==
  /\ listeners >= 1
  /\ PrefsStep(dispatchClick(W, listeners, tgt), Act("click", tgt, 0))
  /\ NoTrail

Keydown(key) ==
  /\ listeners >= 1
  /\ PrefsStep(dispatchKeydown(W, listeners, key), Act("keydown", key, 0))
  /\ NoTrail

ApiSetTheme(theme) ==
  /\ PrefsStep(setTheme(W, theme), Act("setTheme", theme, 0))
  /\ NoTrail

\* window.AIResearchAgent.getTheme()
ApiGetTheme ==
  /\ PrefsStep(IF getItemThrows(env) THEN Throw(W) ELSE W, Act("getTheme", "", 0))
  /\ NoTrail

ApiToggleTheme ==
  /\ PrefsStep(toggleTheme(W), Act("toggleTheme", "", 0))
  /\ themeTrail' = Last(Len(themes), Append(themeTrail, ThemeSnap(W)))
  /\ sidebarTrail' = <<>>

ApiResetTheme ==
  /\ PrefsStep(resetTheme(W), Act("resetTheme", "", 0))
  /\ NoTrail

\* randomTheme(): Math.random picks any index of CONFIG.themes
ApiRandomTheme ==
  /\ \E randomIndex \in 0..(Len(themes) - 1) :
        PrefsStep(setTheme(W, themes[randomIndex + 1]), Act("randomTheme", "", 0))
  /\ NoTrail

ApiToggleSidebar ==
  /\ PrefsStep(toggleSidebar(W), Act("toggleSidebar", "", 0))
  /\ sidebarTrail' = Last(2, Append(sidebarTrail, SidebarSnap(W)))
  /\ themeTrail' = <<>>

\* window.AIResearchAgent.initUI(), as long as closure ids are left for the
\* activations the page itself still owes (DOMContentLoaded, the poll)
ApiInitUI ==
  /\ script = "run"
  /\ mutationObserver + (IF dclListener THEN 1 ELSE 0)
       + (IF streamlitReady # NoTimer THEN 1 ELSE 0) < MaxInit
  /\ InitUI(W)
  /\ lastAct' = Act("initUI", "", 0)
  /\ NoTrail
  /\ KeepPoll
  /\ UNCHANGED reloaded

\* cleanup that disconnects nothing
cleanupDisconnectsNothing(o) == o

cleanup(o) ==
  IF o.mutationObserver # 0
    THEN [o EXCEPT !.connected = @ \ {o.mutationObserver}]
    ELSE o

ApiCleanup ==
  /\ script = "run"
  /\ connected' = cleanup(O).connected
  /\ UNCHANGED <<mutationObserver, target>>
  /\ KeepPrefs /\ KeepDom /\ KeepTimers /\ KeepPoll
  /\ NoPass
  /\ lastAct' = Act("cleanup", "", 0)
  /\ NoTrail
  /\ UNCHANGED <<listeners, inserted, innerWidth, reloaded>>

\* the page is left and served again: beforeunload runs cleanup, every timer,
\* listener and element of the old page is gone, the Preference Store stays
Reload ==
  /\ script = "run"
  /\ UNCHANGED <<storage, env>>
  /\ fault' = FALSE
  /\ \E a \in BOOLEAN : app' = FreshApp(a)
  /\ \E b \in BOOLEAN : sidebar' = FreshSidebar(b)
  /\ parent' = [n \in Nodes |-> "none"]
  /\ icons' = [n \in Nodes |-> 0]
  /\ progress' = [n \in Nodes |-> 0]
  /\ script' = "notrun"
  /\ dclListener' = FALSE
  /\ mutationObserver' = 0
  /\ connected' = {}
  /\ target' = [k \in Closures |-> "none"]
  /\ enhanceTimeout' = [k \in Closures |-> NoTimer]
  /\ resizeTimeout' = [k \in Closures |-> NoTimer]
  /\ listeners' = 0
  /\ streamlitReady' = NoTimer
  /\ pollTimeout' = NoTimer
  /\ lastAct' = Act("reload", "", 0)
  /\ emitted' = <<>>
  /\ NoPass
  /\ NoTrail
  /\ reloaded' = IF lastAct.op = "setTheme"
                   THEN [theme |-> lastAct.arg, root |-> app.present]
                   ELSE NoReload
  /\ burst' = [k \in Closures |-> NoBurst]
  /\ inserted' = {}
  /\ UNCHANGED innerWidth

\* ===== SPECIFICATIONS =====
\* what the script does by itself once it has been served, but for the two
\* timers that need the host's help to come due: the poll's timeout (the root
\* stays away) and a debounced rescan (a candidate is inserted)
Program ==
  \/ \E loading \in BOOLEAN : ScriptLoad(loading)
  \/ DOMContentLoaded
  \/ PollTick
  \/ Tick
  \/ \E id \in Closures : ResizeFire(id)

Host ==
  \/ AppAppears
  \/ SidebarAppears
  \/ \E n \in Nodes, p \in {"body", "app"} \cup Nodes : HostAttach(n, p)
  \/ \E n \in Nodes : HostDetach(n)

User ==
  \/ \E tgt \in ClickTargets : Click(tgt)
  \/ \E key \in Keys : Keydown(key)
  \/ \E theme \in ThemeArgs : ApiSetTheme(theme)
  \/ ApiGetTheme
  \/ ApiToggleTheme
  \/ ApiResetTheme
  \/ ApiRandomTheme
  \/ ApiToggleSidebar
  \/ \E width \in Widths : WindowResize(width)
  \/ Reload

Next ==
  \/ Program
  \/ PollTimeoutFire
  \/ \E id \in Closures : EnhanceFire(id)
  \/ Host
  \/ User
  \/ ApiInitUI
  \/ ApiCleanup

Spec == Init /\ [][Next]_vars

\* The enhancement pipeline on a page that is loaded, root included, when the
\* script runs: the script, the host building the DOM below the root,
\* teardown; the preferences start empty and are left alone.
InitEnhance ==
  /\ Init
  /\ env = StorageWorks
  /\ storage = [theme |-> Null, sidebarCollapsed |-> Null]
  /\ app.present
  /\ ~sidebar.present
  /\ innerWidth = MobileWidth + 1

NextEnhance ==
  \/ ScriptLoad(FALSE)
  \/ PollTick
  \/ Tick
  \/ \E id \in Closures : ResizeFire(id)
  \/ \E id \in Closures : EnhanceFire(id)
  \/ \E n \in Nodes, p \in {"app"} \cup Nodes : HostAttach(n, p)
  \/ \E n \in Nodes : HostDetach(n)
  \/ ApiCleanup

SpecEnhance == InitEnhance /\ [][NextEnhance]_vars

\* The theme controller: the script, the root appearing, the theme operations
\* of the global API, repeated activation and reloads; there is no sidebar.
InitTheme ==
  /\ Init
  /\ env = StorageWorks
  /\ storage.sidebarCollapsed = Null
  /\ ~sidebar.present
  /\ innerWidth = MobileWidth + 1

NextTheme ==
  \/ Program
  \/ PollTimeoutFire
  \/ AppAppears
  \/ \E theme \in ThemeArgs : ApiSetTheme(theme)
  \/ ApiToggleTheme
  \/ ApiResetTheme
  \/ ApiRandomTheme
  \/ ApiInitUI
  \/ Reload

SpecTheme == InitTheme /\ [][NextTheme]_vars

\* The user and the sidebar: the script, the root and the sidebar appearing,
\* clicks and key presses, toggleSidebar and setTheme of the global API and
\* repeated activation; no theme is stored when the page is served.
InitSidebar ==
  /\ Init
  /\ env = StorageWorks
  /\ storage.theme = Null
  /\ innerWidth = MobileWidth + 1

NextSidebar ==
  \/ Program
  \/ PollTimeoutFire
  \/ AppAppears
  \/ SidebarAppears
  \/ \E tgt \in ClickTargets : Click(tgt)
  \/ \E key \in Keys : Keydown(key)
  \/ ApiToggleSidebar
  \/ \E theme \in ThemeArgs : ApiSetTheme(theme)
  \/ ApiInitUI

SpecSidebar == InitSidebar /\ [][NextSidebar]_vars

\* Persistence: every storage environment; the script, the root appearing,
\* the user's clicks and key presses and the public operations of the global
\* API.  The sidebar is rendered from the start.
InitStorage ==
  /\ Init
  /\ storage.theme \in {Null, "Dark"}
  /\ storage.sidebarCollapsed = Null
  /\ sidebar.present
  /\ innerWidth = MobileWidth + 1

NextStorage ==
  \/ Program
  \/ PollTimeoutFire
  \/ AppAppears
  \/ \E tgt \in ClickTargets : Click(tgt)
  \/ \E key \in Keys : Keydown(key)
  \/ ApiGetTheme
  \/ \E theme \in ThemeArgs : ApiSetTheme(theme)
  \/ ApiToggleTheme
  \/ ApiResetTheme
  \/ ApiRandomTheme
  \/ ApiToggleSidebar
  \/ ApiInitUI

SpecStorage == InitStorage /\ [][NextStorage]_vars

\* The responsive sidebar: narrow and wide viewports, the window resized, the
\* root and the sidebar appearing, repeated activation; working storage,
\* nothing stored.
InitResize ==
  /\ Init
  /\ env = StorageWorks
  /\ storage = [theme |-> Null, sidebarCollapsed |-> Null]

NextResize ==
  \/ Program
  \/ PollTimeoutFire
  \/ AppAppears
  \/ SidebarAppears
  \/ \E width \in Widths : WindowResize(width)
  \/ ApiInitUI

SpecResize == InitResize /\ [][NextResize]_vars

\* The observers over the life of a page: the root there at load or rendered
\* later, repeated activation and teardown; working storage, nothing stored,
\* no sidebar, and a host that inserts nothing.
InitObserver ==
  /\ Init
  /\ env = StorageWorks
  /\ storage = [theme |-> Null, sidebarCollapsed |-> Null]
  /\ ~sidebar.present
  /\ innerWidth = MobileWidth + 1

NextObserver ==
  \/ Program
  \/ PollTimeoutFire
  \/ AppAppears
  \/ ApiInitUI
  \/ ApiCleanup

SpecObserver == InitObserver /\ [][NextObserver]_vars

\* ===== PROPERTIES =====
NoRescanPending == \A k \in Closures : enhanceTimeout[k] = NoTimer
InitOps == {"scriptLoad", "DOMContentLoaded", "pollTick", "initUI"}

\* C1: in every reachable state, whatever passes have run (initUI's, the
\* debounced ones, those of a repeated initUI), the engine has attached at
\* most one .summary-icon and at most one .summary-progress to each candidate,
\* and none to any other element.
C1_DecoratedAtMostOnce ==
  \A n \in Nodes :
    /\ icons[n] <= 1
    /\ progress[n] <= 1
    /\ ~IsBox(n) => icons[n] = 0 /\ progress[n] = 0

\* C1 witness: a debounced pass has just gone over two decorated candidates
\* in the document and left both of them alone.
C1_Witness ==
  /\ lastAct.op = "enhanceFire"
  /\ skipped = Boxes
  /\ \A b \in Boxes : icons[b] = 1 /\ progress[b] = 1

\* C2: right after an enhancement pass every candidate in the document has
\* exactly one marker and exactly one progress element of its own, wherever
\* it sits relative to other candidates and whatever was decorated earlier.
C2_EveryCandidateDecoratedByPass ==
  passes = 1 =>
    \A b \in Boxes : InDoc(parent, b) => icons[b] = 1 /\ progress[b] = 1

\* C3: for each debounce closure, while its timer is pending it has run no
\* pass for the current burst and the timer is due exactly one window after
\* the latest relevant batch; when the timer is gone the burst has produced
\* exactly one pass, run one full window after the latest batch.
C3_TrailingDebounce ==
  \A k \in Closures :
    /\ enhanceTimeout[k] # NoTimer =>
         /\ burst[k].batches >= 1
         /\ burst[k].passes = 0
         /\ burst[k].since + enhanceTimeout[k] = WaitTicks
    /\ enhanceTimeout[k] = NoTimer /\ burst[k] # NoBurst =>
         /\ burst[k].passes = 1
         /\ burst[k].since = WaitTicks

\* C3 witness: the one pass of a burst of several batches has just run, for
\* the observer that is armed.
C3_Witness ==
  /\ lastAct.op = "enhanceFire"
  /\ lastAct.id \in connected
  /\ burst[lastAct.id] = [since |-> WaitTicks, batches |-> 2, passes |-> 1]

\* C4: once no rescan is pending, every candidate that was inserted into the
\* watched subtree after startup and is still there is decorated.
C4_InsertedCandidateDecorated ==
  NoRescanPending =>
    \A b \in inserted : icons[b] = 1 /\ progress[b] = 1

\* the value after t in ThemeSet, the first one after the last
NextInOrder(t) ==
  LET i == CHOOSE j \in 1..Len(themes) : themes[j] = t
  IN IF i = Len(themes) THEN themes[1] ELSE themes[i + 1]

ThemeActions == {"themeToggle", "Mod+Shift+T"}
SidebarActions == {"sidebarToggle", "Mod+Shift+S"}

\* C5: once activation has registered the handlers, on a page with its root
\* and sidebar, one theme click or key press moves the theme one position on
\* in ThemeSet and emits one themeChanged, and one sidebar click or key press
\* flips the collapsed state once and emits one sidebarToggled.
C5_OneActionOneToggle ==
  [][lastAct'.op \in {"click", "keydown"} /\ app.present /\ sidebar.present =>
       /\ lastAct'.arg \in ThemeActions =>
            /\ getTheme(W') = NextInOrder(getTheme(W))
            /\ emitted' = <<Event("themeChanged", getTheme(W'))>>
       /\ lastAct'.arg \in SidebarActions =>
            /\ sidebar'.collapsed = ~sidebar.collapsed
            /\ emitted' = <<Event("sidebarToggled", Bool(sidebar'.collapsed))>>]_vars

Activated == lastAct.op \in InitOps /\ passes = 1 /\ app.present

C12_FailuresAbsorbed ==
  /\ ~fault
  /\ lastAct.op = "setTheme" /\ app.present =>
       storage.theme = (IF lastAct.arg \in ThemeSet THEN lastAct.arg ELSE defaultTheme)

\* the statements of initUI that call the store all return
StoreAnswers == ~getItemThrows(env) /\ ~setItemThrows(env)

\* C13: a poll tick that finds the root without the initialized marker sets
\* the marker, runs one activation (with a pass and a new observer, unless a
\* storage call raised inside it) and cancels the poll; a tick that finds no
\* root, or a marked one, changes nothing and re-arms the poll; a cancelled
\* poll stays cancelled for the rest of the page's life, and a marked root
\* means a cancelled poll, so the poll activates at most once.
C13_PollActivatesOnce ==
  /\ [](app.initialized => streamlitReady = NoTimer)
  /\ [][/\ lastAct'.op = "pollTick" =>
             IF app.present /\ ~app.initialized
               THEN /\ app'.initialized
                    /\ StoreAnswers =>
                         passes' = 1 /\ mutationObserver' = mutationObserver + 1
                    /\ streamlitReady' = NoTimer
               ELSE /\ streamlitReady' = PollTicks
                    /\ passes' = 0
                    /\ UNCHANGED <<storage, app, sidebar, parent, icons, progress,
                                   mutationObserver, connected, listeners>>
        /\ script = "run" /\ streamlitReady = NoTimer =>
             streamlitReady' = NoTimer]_vars

\* C13 witness: the root appeared after the script had loaded, and the poll
\* has just marked it, activated and cancelled itself, the timeout not yet
\* reached.
C13_Witness ==
  /\ lastAct.op = "pollTick"
  /\ passes = 1
  /\ app.initialized
  /\ app.theme # Null
  /\ mutationObserver = 2
  /\ streamlitReady = NoTimer

\* the number of whole poll intervals in the timeout: 20
MaxPollTicks == TimeoutTicks \div PollTicks

\* C14: while the poll is armed the 10 s timeout has not fired yet and the
\* poll's ticks fall on whole multiples of the interval after script load;
\* once the timeout is gone the poll is cancelled; so a poll tick is one of
\* the first 20, no tick runs after the timeout, and the timeout's firing
\* cancels the poll whether or not the root ever appeared.
C14_PollBounded ==
  /\ [](script = "run" /\ streamlitReady # NoTimer =>
          /\ pollTimeout \in 0..TimeoutTicks
          /\ (TimeoutTicks - pollTimeout + streamlitReady) % PollTicks = 0)
  /\ [](script = "run" /\ pollTimeout = NoTimer => streamlitReady = NoTimer)
  /\ [][/\ lastAct'.op = "pollTick" =>
             \E k \in 1..MaxPollTicks : TimeoutTicks - pollTimeout = k * PollTicks
        /\ lastAct'.op = "pollTimeout" =>
             streamlitReady' = NoTimer /\ passes' = 0]_vars

\* C14 witness: the root was rendered only after the timeout had fired; it
\* carries no marker and no theme, and the poll is cancelled.
C14_Witness ==
  /\ lastAct.op = "appAppears"
  /\ script = "run"
  /\ pollTimeout = NoTimer
  /\ streamlitReady = NoTimer
  /\ app.present
  /\ ~app.initialized

\* C15: when an activation has just run on a page with its sidebar, the
\* sidebar carries the mobile class exactly if the viewport is at most 768
\* wide, before any timer has fired; and when the debounced handler has run
\* after a resize the class reflects the width again.
C15_MobileClassOnActivation ==
  /\ lastAct.op \in InitOps /\ passes = 1 /\ sidebar.present =>
       sidebar.mobile = (innerWidth <= MobileWidth)
  /\ lastAct.op = "resizeFire" /\ sidebar.present =>
       sidebar.mobile = (innerWidth <= MobileWidth)

\* C16: at most one observer is connected, and it is the latest one; an
\* activation that runs through connects exactly the observer it creates,
\* on the root element if that is present when it subscribes and on the body
\* otherwise; after cleanup none is connected.
C16_AtMostOneObserver ==
  /\ [](Cardinality(connected) <= 1 /\ connected \subseteq {mutationObserver})
  /\ [][/\ lastAct'.op \in InitOps /\ passes' = 1 =>
             /\ mutationObserver' = mutationObserver + 1
             /\ connected' = {mutationObserver'}
             /\ target'[mutationObserver'] = (IF app.present THEN "app" ELSE "body")
        /\ lastAct'.op = "cleanup" => connected' = {}]_vars

\* C16 witness: a first observer was set up on the body, a second one on the
\* root once it was there, and cleanup has just disconnected it.
C16_Witness ==
  /\ lastAct.op = "cleanup"
  /\ mutationObserver = 2
  /\ target[1] = "body"
  /\ target[2] = "app"
  /\ connected = {}

HasSidebarToggled(events) == \E i \in 1..Len(events) : events[i].type = "sidebarToggled"

\* C17 as claimed: an activation never writes the persisted sidebar value and
\* emits no sidebarToggled; when the persisted value is "true" it leaves the
\* sidebar element (if there is one) with the collapsed class and the root
\* element (if there is one) with the collapsed attribute; and only a
\* toggleSidebar, called directly or by a click or key press, emits
\* sidebarToggled.
C17_SilentStartup ==
  [][/\ lastAct'.op \in InitOps /\ passes' = 1 =>
          /\ storage'.sidebarCollapsed = storage.sidebarCollapsed
          /\ ~HasSidebarToggled(emitted')
          /\ storage.sidebarCollapsed = "true" =>
               /\ sidebar.present => sidebar'.collapsed
               /\ app.present => app'.sidebarCollapsed = "true"
     /\ HasSidebarToggled(emitted') =>
          lastAct'.op \in {"toggleSidebar", "click", "keydown"}]_vars

\* C17 as amended: the same, the collapsed class and attribute being applied
\* when the persisted value is "true" and both the sidebar element and the
\* root element are present; in every other case the activation leaves the
\* collapsed class and the attribute as they were.
C17_SilentStartupOnRoot ==
  [][/\ lastAct'.op \in InitOps /\ passes' = 1 =>
          /\ storage'.sidebarCollapsed = storage.sidebarCollapsed
          /\ ~HasSidebarToggled(emitted')
          /\ IF storage.sidebarCollapsed = "true" /\ sidebar.present /\ app.present
               THEN sidebar'.collapsed /\ app'.sidebarCollapsed = "true"
               ELSE /\ sidebar'.collapsed = sidebar.collapsed
                    /\ app'.sidebarCollapsed = app.sidebarCollapsed
     /\ HasSidebarToggled(emitted') =>
          lastAct'.op \in {"toggleSidebar", "click", "keydown"}]_vars

\* C17 witness: the script has just loaded and activated a page whose store
\* says collapsed: the sidebar is collapsed, the attribute set, the store
\* untouched, and the only notification is the themeChanged of setTheme.
C17_Witness ==
  /\ lastAct.op = "scriptLoad"
  /\ passes = 1
  /\ sidebar.collapsed
  /\ app.sidebarCollapsed = "true"
  /\ storage.sidebarCollapsed = "true"
  /\ emitted = <<Event("themeChanged", defaultTheme)>>

\* cleanup was the last thing done to the observers: one was set up and none
\* is connected
TornDown == mutationObserver # 0 /\ connected = {}

\* C18 as claimed: once cleanup has disconnected the observer no enhancement
\* pass runs, whatever was pending when it ran.
C18_NoPassAfterCleanup ==
  [][TornDown => passes' = 0]_vars

\* C18 as amended: cleanup disconnects the observer and leaves the timers
\* alone; from then on, until an activation sets up a new observer, an
\* insertion schedules no rescan, and the only passes are those of rescans
\* that were already pending, each of which runs once and schedules nothing,
\* and the pass of a later activation.
C18_NoNewRescanAfterCleanup ==
  [][/\ lastAct'.op = "cleanup" =>
          connected' = {} /\ enhanceTimeout' = enhanceTimeout /\ passes' = 0
     /\ TornDown /\ lastAct'.op = "attach" => enhanceTimeout' = enhanceTimeout
     /\ TornDown /\ passes' = 1 =>
          \/ lastAct'.op \in InitOps
          \/ /\ lastAct'.op = "enhanceFire"
             /\ enhanceTimeout[lastAct'.id] = 0
             /\ enhanceTimeout'[lastAct'.id] = NoTimer
             /\ \A k \in Closures \ {lastAct'.id} : enhanceTimeout'[k] = enhanceTimeout[k]]_vars

\* C18 witness: after the teardown a rescan that was pending has just run
\* and decorated a candidate inserted before the teardown; nothing is pending
\* any more.
C18_Witness ==
  /\ TornDown
  /\ lastAct.op = "enhanceFire"
  /\ NoRescanPending
  /\ \E b \in inserted : b \notin skipped /\ icons[b] = 1

Pending == {k \in Closures : enhanceTimeout[k] # NoTimer}

\* C19 as claimed: at every moment at most one debounced rescan is pending,
\* also across a re-arm of the observer.
C19_AtMostOnePendingRescan ==
  Cardinality(Pending) <= 1

\* C19 as amended: every pending rescan belongs to the debounce closure of an
\* activation that has run, one per closure, so there are at most as many as
\* activations; an activation neither cancels nor re-times the rescans pending
\* from earlier ones; and an insertion arms or re-times only the rescan of
\* the latest observer's closure.
C19_OnePendingRescanPerActivation ==
  /\ [](Pending \subseteq 1..mutationObserver)
  /\ [][/\ lastAct'.op \in InitOps => enhanceTimeout' = enhanceTimeout
        /\ lastAct'.op = "attach" =>
             \A k \in Closures \ {mutationObserver} : enhanceTimeout'[k] = enhanceTimeout[k]]_vars

\* C19 witness: the observer was re-armed by a second activation while the
\* first observer's rescan was pending, a further insertion has armed the new
\* closure, and two rescans are pending for one burst.
C19_Witness ==
  /\ lastAct.op = "attach"
  /\ mutationObserver = 2
  /\ Pending = {1, 2}
  /\ burst[1].batches >= 1
  /\ burst[2].batches >= 1

\* C20: a debounced pass, whatever it decorates and whichever observer is
\* told of the elements it inserts, arms no timer: its own is gone afterwards
\* and the others are as before; and only an insertion by the host ends a
\* state in which no rescan is pending.  So every pass leaves one pending
\* rescan fewer, and once the host stops inserting the system is quiet after
\* at most as many passes as rescans were pending.
C20_PassSchedulesNoPass ==
  [][/\ lastAct'.op = "enhanceFire" =>
          /\ Pending' = Pending \ {lastAct'.id}
          /\ \A k \in Pending' : enhanceTimeout'[k] = enhanceTimeout[k]
     /\ NoRescanPending /\ lastAct'.op # "attach" => NoRescanPending']_vars

\* C20 witness: a pass has just decorated a candidate under the eyes of a
\* connected observer of the root, and no rescan is pending.
C20_Witness ==
  /\ lastAct.op = "enhanceFire"
  /\ connected = {mutationObserver}
  /\ target[mutationObserver] = "app"
  /\ \E b \in Boxes : InDoc(parent, b) /\ b \notin skipped /\ icons[b] = 1
  /\ NoRescanPending

====
